---------------------------- MODULE Spec2Model ----------------------------
(***************************************************************************)
(* A model of the Rako hub client (src/py-rako/rako_hub.py).               *)
(*                                                                         *)
(* Text is modelled as sequences of one-character strings, so that         *)
(* formatting (str.format, str), splitting (str.split) and stripping       *)
(* (str.strip, str.rstrip) are computed character by character.            *)
(*                                                                         *)
(* Every public operation is a coroutine.  Its code between two awaits     *)
(* that suspend (asyncio.open_connection, and StreamReader.readline when   *)
(* it has to wait for data) runs atomically on the event loop and is one   *)
(* action of the model.                                                    *)
(* StreamWriter.drain is taken not to suspend: the request lines are far   *)
(* below the transport's high-water mark.                                  *)
(***************************************************************************)
EXTENDS Integers, Sequences, FiniteSets, TLC

(***************************************************************************)
(* Bounds of the model.                                                    *)
(***************************************************************************)
MaxOps   == 2      \* public operations started on the client
MaxRows  == 2      \* lines the hub sends before QUERY_COMPLETE

None == 0          \* Python's None, for a connection reference

\* The optional room_id of a query: <<>> is Python's None, <<n>> the id n.
NoRoom == <<>>

(***************************************************************************)
(* Text: str(), str.split, str.strip, str.rstrip                           *)
(***************************************************************************)
Digits == <<"0", "1", "2", "3", "4", "5", "6", "7", "8", "9">>

RECURSIVE NatStr(_)
NatStr(n) == IF n < 10 THEN <<Digits[n + 1]>>
             ELSE NatStr(n \div 10) \o <<Digits[(n % 10) + 1]>>

\* str(val) of a Python int
Str(n) == IF n < 0 THEN <<"-">> \o NatStr(0 - n) ELSE NatStr(n)

\* The characters str.strip() and str.rstrip() remove: those for which
\* str.isspace() holds.  Besides the ones below (after form feed: U+000B,
\* U+001C to U+001F, U+0085, U+00A0, U+1680) these are U+2000 to U+200A,
\* U+2028, U+2029, U+202F, U+205F and U+3000, which a string of this
\* language cannot hold.
Whitespace ==
    {" ", "\t", "\n", "\r", "\f", "", "", "", "", "",
     "", " ", " "}

RECURSIVE RStrip(_)
RStrip(s) == IF s = <<>> THEN s
             ELSE IF s[Len(s)] \in Whitespace THEN RStrip(SubSeq(s, 1, Len(s) - 1))
             ELSE s

RECURSIVE LStrip(_)
LStrip(s) == IF s = <<>> THEN s
             ELSE IF s[1] \in Whitespace THEN LStrip(Tail(s))
             ELSE s

Strip(s) == LStrip(RStrip(s))

\* s.split(sep): the fields between the separators; never empty.
RECURSIVE SplitAcc(_, _, _, _)
SplitAcc(s, sep, cur, acc) ==
    IF s = <<>> THEN Append(acc, cur)
    ELSE IF s[1] = sep THEN SplitAcc(Tail(s), sep, <<>>, Append(acc, cur))
    ELSE SplitAcc(Tail(s), sep, Append(cur, s[1]), acc)

Split(s, sep) == SplitAcc(s, sep, <<>>, <<>>)

Contains(s, c) == \E i \in 1..Len(s) : s[i] = c

RECURSIVE Concat(_)
Concat(ss) == IF ss = <<>> THEN <<>> ELSE ss[1] \o Concat(Tail(ss))

CRLF  == <<"\r", "\n">>
Comma == <<",">>

(***************************************************************************)
(* RakoHub.__init__                                                        *)
(***************************************************************************)
MinPort == 0
MaxPort == 65535

\* raise Exception(message): the constructor fails, no object is made
Raise(message) == [state |-> "failed", raised |-> "Exception", error |-> message]

\* The constructor: the exception it raises, or the attributes it sets.
RakoHubInit(client_name, host, port) ==
    LET h == Strip(host)
        n == Strip(client_name)
    IN  IF h = <<>>
          THEN Raise("RakoHub: host parameter cannot be empty")
        ELSE IF port < MinPort \/ port > MaxPort
          THEN Raise("RakoHub: port should be between 0 and 65535")
        ELSE IF n = <<>>
          THEN Raise("RakoHub: client_name parameter cannot be empty")
        ELSE IF Contains(n, ",")
          THEN Raise("RakoHub: invalid character ',' in client_name")
        ELSE [state |-> "ok", host |-> h, port |-> port, client_name |-> n]


(***************************************************************************)
(* Row Parser: RakoHub._to_* and the HubInfo built by get_hub_info.        *)
(* data is the list of fields of one line; data[i] of the code is          *)
(* Field(data, i).  A subscript beyond the list raises IndexError.         *)
(***************************************************************************)
IndexError == [raised |-> "IndexError"]

Field(data, i) == data[i + 1]

InRange(data, is) == \A i \in is : i < Len(data)

_to_channel(data) ==
    IF ~InRange(data, 1..23) THEN IndexError
    ELSE [room_id       |-> Field(data, 1),
          room_tile     |-> Field(data, 2),
          room_type     |-> Field(data, 3),
          room_mode     |-> Field(data, 4),
          channel_id    |-> Field(data, 5),
          channel_title |-> Field(data, 6),
          channel_type  |-> Field(data, 7),
          scene1        |-> Field(data, 8),
          scene2        |-> Field(data, 9),
          scene3        |-> Field(data, 10),
          scene4        |-> Field(data, 11),
          scene5        |-> Field(data, 12),
          scene6        |-> Field(data, 13),
          scene7        |-> Field(data, 14),
          scene8        |-> Field(data, 15),
          scene9        |-> Field(data, 16),
          scene10       |-> Field(data, 17),
          scene11       |-> Field(data, 18),
          scene12       |-> Field(data, 19),
          scene13       |-> Field(data, 20),
          scene14       |-> Field(data, 21),
          scene15       |-> Field(data, 22),
          scene16       |-> RStrip(Field(data, 23))]

_to_colour(data) ==
    IF ~InRange(data, 1..5) THEN IndexError
    ELSE [room_id       |-> Field(data, 1),
          room_title    |-> Field(data, 2),
          channel_id    |-> Field(data, 3),
          channel_title |-> Field(data, 4),
          type          |-> RStrip(Field(data, 5))]

_to_colour_level(data) ==
    IF ~InRange(data, 1..6) THEN IndexError
    ELSE [room_id       |-> Field(data, 1),
          channel_id    |-> Field(data, 2),
          type          |-> Field(data, 3),
          level         |-> Field(data, 4),
          red_or_kelvin |-> Field(data, 4),
          green         |-> Field(data, 5),
          blue          |-> RStrip(Field(data, 6))]

_to_level(data) ==
    IF ~InRange(data, 1..5) THEN IndexError
    ELSE [room_id       |-> Field(data, 1),
          channel_id    |-> Field(data, 2),
          current_scene |-> Field(data, 3),
          current_level |-> Field(data, 4),
          target_level  |-> RStrip(Field(data, 5))]

_to_room(data) ==
    IF ~InRange(data, 1..4) THEN IndexError
    ELSE [room_id   |-> Field(data, 1),
          room_tile |-> Field(data, 2),
          room_type |-> Field(data, 3),
          room_mode |-> RStrip(Field(data, 4))]

_to_scene(data) ==
    IF ~InRange(data, 1..3) THEN IndexError
    ELSE [room_id     |-> Field(data, 1),
          scene_id    |-> Field(data, 2),
          scene_title |-> RStrip(Field(data, 3))]

\* The HubInfo of get_hub_info; no field is stripped.
ToHubInfo(response) ==
    IF ~InRange(response, 2..5) THEN IndexError
    ELSE [protocol_version |-> Field(response, 2),
          hub_id           |-> Field(response, 3),
          mac_address      |-> Field(response, 4),
          hub_version      |-> Field(response, 5)]

\* func(data) of _query, func named by the query it serves.
Func(query, data) ==
    CASE query = "CHANNEL"     -> _to_channel(data)
      [] query = "COLOR"       -> _to_colour(data)
      [] query = "COLOR_LEVEL" -> _to_colour_level(data)
      [] query = "LEVEL"       -> _to_level(data)
      [] query = "ROOM"        -> _to_room(data)
      [] query = "SCENE"       -> _to_scene(data)

(***************************************************************************)
(* Words of the protocol, as text.                                         *)
(***************************************************************************)
Text(word) ==
    CASE word = "SUB,BASIC,V4," -> <<"S","U","B",",","B","A","S","I","C",",","V","4",",">>
      [] word = "STATUS,0"     -> <<"S","T","A","T","U","S",",","0">>
      [] word = "QUERY"        -> <<"Q","U","E","R","Y">>
      [] word = "SEND"         -> <<"S","E","N","D">>
      [] word = "QUERY_HEADER"   -> <<"Q","U","E","R","Y","_","H","E","A","D","E","R">>
      [] word = "QUERY_COMPLETE" -> <<"Q","U","E","R","Y","_","C","O","M","P","L","E","T","E">>
      [] word = "AERROR"       -> <<"A","E","R","R","O","R">>
      [] word = "CHANNEL"      -> <<"C","H","A","N","N","E","L">>
      [] word = "COLOR"        -> <<"C","O","L","O","R">>
      [] word = "COLOR_LEVEL"  -> <<"C","O","L","O","R","_","L","E","V","E","L">>
      [] word = "LEVEL"        -> <<"L","E","V","E","L">>
      [] word = "ROOM"         -> <<"R","O","O","M">>
      [] word = "SCENE"        -> <<"S","C","E","N","E">>
      [] word = "RGB"          -> <<"R","G","B">>
      [] word = "KELVIN"       -> <<"K","E","L","V","I","N">>
      [] word = "FADE_DOWN"    -> <<"F","A","D","E","_","D","O","W","N">>
      [] word = "FADE_UP"      -> <<"F","A","D","E","_","U","P">>
      [] word = "FADE_STOP"    -> <<"F","A","D","E","_","S","T","O","P">>
      [] word = "STORE"        -> <<"S","T","O","R","E">>

(***************************************************************************)
(* Request lines.                                                          *)
(***************************************************************************)
\* _reconnect: "SUB,BASIC,V4,{0}\r\n".format(self.client_name)
SubRequest(client_name) == Text("SUB,BASIC,V4,") \o client_name \o CRLF

\* get_hub_info: "STATUS,0\r\n"
StatusRequest == Text("STATUS,0") \o CRLF

\* the room id tested for truth: room 0 counts as no room
QueryRequest_Falsy(query, room_id) ==
    IF room_id = NoRoom \/ room_id = <<0>>
      THEN Text("QUERY") \o Comma \o Text(query) \o CRLF
      ELSE Text("QUERY") \o Comma \o Text(query) \o Comma \o Str(room_id[1]) \o CRLF

\* _query: the request with or without the room id
QueryRequest(query, room_id) ==
    IF room_id = NoRoom
      THEN Text("QUERY") \o Comma \o Text(query) \o CRLF
      ELSE Text("QUERY") \o Comma \o Text(query) \o Comma \o Str(room_id[1]) \o CRLF

\* the values joined by commas
RECURSIVE ValuesText_Separated(_)
ValuesText_Separated(values) ==
    IF values = <<>> THEN <<>>
    ELSE IF Len(values) = 1 THEN Str(values[1])
    ELSE Str(values[1]) \o Comma \o ValuesText_Separated(Tail(values))

\* for val in values: request += str(val)
RECURSIVE ValuesText(_)
ValuesText(values) ==
    IF values = <<>> THEN <<>>
    ELSE Str(values[1]) \o ValuesText(Tail(values))

\* _send: the request line of a command
SendRequest(command, room_id, channel_id, values) ==
    Text("SEND") \o Comma \o Str(room_id) \o Comma \o Str(channel_id) \o Comma
        \o Text(command) \o Comma \o ValuesText(values) \o CRLF

\* _send: the reply's first field is AERROR
Rejected(response) == Field(response, 0) = Text("AERROR")

\* _send: the SendCommandError raised on an AERROR reply
SendCommandError(command, room_id, channel_id) ==
    [type |-> "SendCommandError", command |-> command,
     room_id |-> room_id, channel_id |-> channel_id]

(***************************************************************************)
(* The hub's side: the lines it can send.                                  *)
(***************************************************************************)
RECURSIVE JoinComma(_)
JoinComma(fields) ==
    IF Len(fields) = 1 THEN fields[1]
    ELSE fields[1] \o Comma \o JoinComma(Tail(fields))

HubLine(fields) == JoinComma(fields) \o CRLF

HeaderLine   == HubLine(<<Text("QUERY_HEADER"), <<"a">>, <<"b">>>>)
AckLine      == HubLine(<<<<"A","C","K">>>>)

\* The line that ends the answer to a query, and the line that rejects a
\* command: the word alone, or the word and a further field.
CompleteLines == { HubLine(<<Text("QUERY_COMPLETE")>>),
                   HubLine(<<Text("QUERY_COMPLETE"), <<"0">>>>) }
AErrorLines   == { HubLine(<<Text("AERROR")>>),
                   HubLine(<<Text("AERROR"), <<"7">>>>) }
SubAckLine   == HubLine(<<<<"A","O","K">>>>)
StatusLine   == HubLine(<<<<"S">>, <<"0">>, <<"4">>, <<"i","d">>, <<"m","a","c">>, <<"3","1">>>>)
StatusShort  == HubLine(<<<<"S">>, <<"0">>, <<"4">>>>)

SceneFields == [i \in 1..16 |-> <<Digits[(i % 10) + 1]>>]

\* The rows the hub can send in reply to a query: rows of the entity's
\* shape, and for rooms and scenes rows with a field missing or added.
Rows(query) ==
    CASE query = "ROOM" ->
           { HubLine(<<Text("ROOM"), <<"1">>, <<"K">>, <<"S">>, <<"L">>>>),
             HubLine(<<Text("ROOM"), <<"3">>, <<"X">>, <<"S">>>>),
             HubLine(<<Text("ROOM"), <<"4">>, <<"Y">>, <<"S">>, <<"L">>, <<"Z">>>>) }
      [] query = "SCENE" ->
           { HubLine(<<Text("SCENE"), <<"1">>, <<"5">>, <<"E">>>>),
             HubLine(<<Text("SCENE"), <<"1">>, <<"6">>>>) }
      [] query = "LEVEL" ->
           { HubLine(<<Text("LEVEL"), <<"1">>, <<"2">>, <<"3">>, <<"5","0">>, <<"6","0">>>>) }
      [] query = "COLOR" ->
           { HubLine(<<Text("COLOR"), <<"1">>, <<"K">>, <<"2">>, <<"C">>, Text("RGB")>>) }
      [] query = "COLOR_LEVEL" ->
           { HubLine(<<Text("COLOR_LEVEL"), <<"1">>, <<"2">>, Text("RGB"),
                       <<"5","0">>, <<"1","0">>, <<"2","0">>, <<"3","0">>>>) }
      [] query = "CHANNEL" ->
           { HubLine(<<Text("CHANNEL"), <<"1">>, <<"K">>, <<"S">>, <<"L">>,
                       <<"2">>, <<"C">>, <<"D">>>> \o SceneFields) }

(***************************************************************************)
(* Inputs of the public operations.                                        *)
(***************************************************************************)
OptRoomIds == {NoRoom, <<0>>}
Unscoped   == {NoRoom}
RoomIds    == {1}
ChannelIds == {2}
Levels     == {0, 100}
Colours    == {<<10, 20, 30>>}

Tasks    == {1, 2}      \* coroutines that call the client
SeqTasks == {1}         \* a caller that awaits each call before the next

\* Constructor arguments
AllHosts == {<<>>, <<" ">>, <<"\t", " ">>, <<"\n">>, <<"\r", "\n">>, <<"\f">>,
             <<"">>, <<" ", "">>, <<"">>, <<"h">>,
             <<" ", "h", " ">>, <<"", "h", "">>, <<"h", "\r", "\n">>}
AllPorts == {-1, 0, 9761, 65535, 65536}
AllNames == {<<>>, <<" ">>, <<"\n">>, <<"">>, <<"">>, <<"c">>, <<"c", " ">>,
             <<"c", "\n">>, <<"a", ",", "b">>}
UseHosts == {<<>>, <<" ", "h", " ">>}
UsePorts == {9761}
UseNames == {<<"c", " ">>}

(***************************************************************************)
(* State                                                                   *)
(***************************************************************************)
VARIABLES
    client,     \* the RakoHub object: "new" before the constructor ran
    args,       \* the arguments the constructor was called with
    reader,     \* self._reader: a connection, or None
    writer,     \* self._writer: a connection, or None
    conns,      \* the connections opened so far, with the hub's side of each
    task,       \* the coroutines: where each is in its operation, its locals
    ops,        \* operations started so far
    lastFail    \* the last operation to end ended in a transport failure

vars == <<client, args, reader, writer, conns, task, ops, lastFail>>

IdleTask ==
    [pc |-> "idle", op |-> "none", kind |-> "none", query |-> "none",
     command |-> "none", room_id |-> NoRoom, channel_id |-> 0, values |-> <<>>,
     rd |-> None, wr |-> None, result |-> <<>>, outcome |-> "none", error |-> [type |-> "none"],
     cause |-> "none", startAlive |-> FALSE, afterFail |-> FALSE,
     attempts |-> 0, opened |-> 0, wire |-> <<>>, rx |-> <<>>, serial |-> 0,
     foreign |-> FALSE, handshaken |-> FALSE, afterRowFailure |-> FALSE]

NewConn ==
    [pending |-> <<>>, inbox |-> <<>>, rows |-> 0, eof |-> FALSE, reset |-> FALSE,
     pipe |-> FALSE, closing |-> FALSE, lost |-> FALSE, exc |-> "none",
     waiter |-> None, acked |-> FALSE, finalized |-> FALSE]

Init ==
    /\ client = [state |-> "new"]
    /\ args = <<>>
    /\ reader = None
    /\ writer = None
    /\ conns = <<>>
    /\ task = [t \in Tasks |-> IdleTask]
    /\ ops = 0
    /\ lastFail = FALSE

(***************************************************************************)
(* RakoHub(client_name, host, port)                                        *)
(***************************************************************************)
Construct(names, hosts, ports) ==
    /\ client.state = "new"
    /\ \E client_name \in names, host \in hosts, port \in ports :
          /\ client' = RakoHubInit(client_name, host, port)
          /\ args' = [client_name |-> client_name, host |-> host, port |-> port]
    /\ UNCHANGED <<reader, writer, conns, task, ops, lastFail>>

(***************************************************************************)
(* The transport: asyncio streams over one TCP connection.                 *)
(***************************************************************************)
\* _reconnect without the is_closing() test
NeedsReconnect_NoClosingTest(w, cs) == w = None

\* _reconnect's test.  A StreamWriter always has a transport, so the
\* middle disjunct of the code's test never decides.
NeedsReconnect(w, cs) == w = None \/ cs[w].closing

\* What the operation finds when it starts: a transport that exists and is
\* neither closed nor closing.
TransportAlive == writer # None /\ ~conns[writer].closing

\* The error a send on a reset socket fails with: EPIPE when the peer had
\* shut its side down before it reset the connection, ECONNRESET otherwise.
SendError(cs, w) == IF cs[w].pipe THEN "BrokenPipeError" ELSE "ConnectionResetError"

\* writer.write(request).  On a transport that is closing nothing is sent.
\* When the peer has reset the connection and the event loop has not yet
\* read the socket, the send fails and the transport closes at once, its
\* connection_lost() still to be called with the error of the send.  Otherwise the hub receives the
\* line, unless it has closed its side.
Write(cs, w, item) ==
    IF cs[w].closing THEN cs
    ELSE IF cs[w].reset THEN [cs EXCEPT ![w].closing = TRUE, ![w].reset = FALSE,
                                        ![w].pipe = FALSE, ![w].exc = SendError(cs, w)]
    ELSE IF cs[w].eof THEN cs
    ELSE [cs EXCEPT ![w].pending = Append(@, item)]

\* connection_lost(exc) of a transport closed by an error: the reader holds
\* the exception the transport closed with, drops what it had buffered, and wakes its waiter.
LostCallback(cs, c) ==
    [cs EXCEPT ![c].lost = TRUE, ![c].eof = FALSE, ![c].pending = <<>>,
               ![c].inbox = <<>>, ![c].rows = 0, ![c].waiter = None]

\* connection_lost(None) of a transport closed without an error (by the
\* finalizer of its writer): the reader is fed the end of the stream, keeps
\* what it had buffered and holds no exception, and its waiter is woken.
ClosedCallback(cs, c) ==
    [cs EXCEPT ![c].eof = TRUE, ![c].waiter = None]

\* readline() returns or raises without waiting: the connection is lost, a
\* line is buffered, or the hub has closed its side.
Readable(cs, c) == cs[c].lost \/ cs[c].inbox # <<>> \/ cs[c].eof

\* The line readline() returns: the next buffered line, or b"" at end of
\* stream.
ReadLineOf(cs, c) == IF cs[c].inbox # <<>> THEN Head(cs[c].inbox).line ELSE <<>>

\* The buffer after readline() returned.
AfterRead(cs, c) ==
    IF cs[c].inbox # <<>> THEN [cs EXCEPT ![c].inbox = Tail(@)] ELSE cs

\* The line about to be read answers another request than the reader's own.
Foreign(cs, c, rec, kind) ==
    /\ cs[c].inbox # <<>>
    /\ \/ Head(cs[c].inbox).serial # rec.serial
       \/ Head(cs[c].inbox).kind # kind

\* The coroutine waits in readline() and the stream has woken it: data, end
\* of stream or the loss of the connection resolved the future it waits on.
Woken(t) == conns[task[t].rd].waiter # t

(***************************************************************************)
(* The coroutine of one public operation.                                  *)
(***************************************************************************)
TransportCauses == {"connect", "lost", "eof"}

Failed(rec, error, cause) ==
    [rec EXCEPT !.pc = "idle", !.rd = None, !.wr = None, !.outcome = "error",
                !.error = error, !.cause = cause]

Returned(rec, result) ==
    [rec EXCEPT !.pc = "idle", !.rd = None, !.wr = None, !.outcome = "ok",
                !.result = result]

\* The coroutine and the connections, while the coroutine runs.
Machine(rec, cs) == [rec |-> rec, conns |-> cs]

\* await self._reader.readline(): the call, at position pc of the operation
CallReadline(rec, r, pc) == [rec EXCEPT !.pc = pc, !.rd = r]

\* await self._writer.drain() on a transport that is closing while its
\* reader holds no exception: drain() gives way to the event loop once.
CallDrain(rec, w) == [rec EXCEPT !.pc = "drain", !.rd = None, !.wr = w]

\* The request line of the operation
Request(rec) ==
    CASE rec.kind = "query"  -> QueryRequest(rec.query, rec.room_id)
      [] rec.kind = "send"   -> SendRequest(rec.command, rec.room_id, rec.channel_id, rec.values)
      [] rec.kind = "status" -> StatusRequest

\* After _reconnect returned: write the request, drain, call readline.
\* drain() raises the reader's exception when the connection was lost,
\* waits when the transport is closing, and otherwise returns at once.
WriteRequest(rec, cs, w, r) ==
    LET item == [kind |-> rec.kind, query |-> rec.query, serial |-> rec.serial]
        rec1 == [rec EXCEPT !.wire = Append(@, Request(rec)),
                            !.handshaken = cs[w].acked]
        cs1  == Write(cs, w, item)
    IN  IF cs1[w].lost
          THEN Machine(Failed(rec1, [type |-> cs1[w].exc], "lost"), cs1)
        ELSE IF cs1[w].closing
          THEN Machine(CallDrain(rec1, w), cs1)
        ELSE Machine(CallReadline(rec1, r, "reply"), cs1)

\* _reconnect: the line after SUB is read and dropped; the operation goes
\* on to its request.
SubAckRead(rec, cs) ==
    LET c    == rec.rd
        rec1 == [rec EXCEPT !.foreign = @ \/ Foreign(cs, c, rec, "sub")]
    IN  IF cs[c].lost
          THEN Machine(Failed(rec, [type |-> cs[c].exc], "lost"), cs)
          ELSE WriteRequest(rec1, [AfterRead(cs, c) EXCEPT
                                       ![c].acked = @ \/ cs[c].inbox # <<>>],
                            writer, reader)

\* _query with a loop that reads on after QUERY_COMPLETE
QueryRead_NoBreak(rec, cs) ==
    LET c    == rec.rd
        line == ReadLineOf(cs, c)
        data == Split(line, ",")
        rec1 == [rec EXCEPT !.rx = Append(@, line),
                            !.foreign = @ \/ Foreign(cs, c, rec, "query")]
        cs1  == AfterRead(cs, c)
    IN  IF cs[c].lost
          THEN Machine(Failed(rec, [type |-> cs[c].exc], "lost"), cs)
        ELSE IF Field(data, 0) \in {Text("QUERY_HEADER"), Text("QUERY_COMPLETE")}
          THEN Machine(CallReadline(rec1, reader, "reply"), cs1)
        ELSE IF Func(rec1.query, data) = IndexError
          THEN Machine(Failed(rec1, [type |-> "IndexError"],
                              IF line = <<>> THEN "eof" ELSE "row"), cs1)
        ELSE Machine(CallReadline([rec1 EXCEPT !.result = Append(@, Func(rec1.query, data))],
                                  reader, "reply"), cs1)

\* _query: one turn of the loop
QueryRead(rec, cs) ==
    LET c    == rec.rd
        line == ReadLineOf(cs, c)
        data == Split(line, ",")
        rec1 == [rec EXCEPT !.rx = Append(@, line),
                            !.foreign = @ \/ Foreign(cs, c, rec, "query")]
        cs1  == AfterRead(cs, c)
    IN  IF cs[c].lost
          THEN Machine(Failed(rec, [type |-> cs[c].exc], "lost"), cs)
        ELSE IF Field(data, 0) = Text("QUERY_HEADER")
          THEN Machine(CallReadline(rec1, reader, "reply"), cs1)
        ELSE IF Field(data, 0) = Text("QUERY_COMPLETE")
          THEN Machine(Returned(rec1, rec1.result), cs1)
        ELSE IF Func(rec1.query, data) = IndexError
          THEN Machine(Failed(rec1, [type |-> "IndexError"],
                              IF line = <<>> THEN "eof" ELSE "row"), cs1)
        ELSE Machine(CallReadline([rec1 EXCEPT !.result = Append(@, Func(rec1.query, data))],
                                  reader, "reply"), cs1)

\* _send: the reply line
SendRead(rec, cs) ==
    LET c        == rec.rd
        line     == ReadLineOf(cs, c)
        response == Split(line, ",")
        rec1     == [rec EXCEPT !.rx = Append(@, line),
                                !.foreign = @ \/ Foreign(cs, c, rec, "send")]
        cs1      == AfterRead(cs, c)
    IN  IF cs[c].lost
          THEN Machine(Failed(rec, [type |-> cs[c].exc], "lost"), cs)
        ELSE IF Rejected(response)
          THEN Machine(Failed(rec1, SendCommandError(rec1.command, rec1.room_id,
                                                     rec1.channel_id), "rejected"), cs1)
        ELSE Machine(Returned(rec1, <<>>), cs1)

\* get_hub_info: the reply line
StatusRead(rec, cs) ==
    LET c        == rec.rd
        line     == ReadLineOf(cs, c)
        response == Split(line, ",")
        rec1     == [rec EXCEPT !.rx = Append(@, line),
                                !.foreign = @ \/ Foreign(cs, c, rec, "status")]
        cs1      == AfterRead(cs, c)
    IN  IF cs[c].lost
          THEN Machine(Failed(rec, [type |-> cs[c].exc], "lost"), cs)
        ELSE IF ToHubInfo(response) = IndexError
          THEN Machine(Failed(rec1, [type |-> "IndexError"],
                              IF line = <<>> THEN "eof" ELSE "row"), cs1)
        ELSE Machine(Returned(rec1, <<ToHubInfo(response)>>), cs1)

\* What the coroutine does with the line readline() gives it.
Read(rec, cs) ==
    CASE rec.pc = "sub_ack"                          -> SubAckRead(rec, cs)
      [] rec.pc = "reply" /\ rec.kind = "query"  -> QueryRead(rec, cs)
      [] rec.pc = "reply" /\ rec.kind = "send"   -> SendRead(rec, cs)
      [] rec.pc = "reply" /\ rec.kind = "status" -> StatusRead(rec, cs)

\* The coroutine runs until it ends or has to wait.  readline() does not
\* wait when it can return or raise; when it has to wait, it raises
\* RuntimeError if another coroutine already waits on the same reader, and
\* otherwise registers the coroutine as the reader's waiter.
RECURSIVE RunToSuspension(_, _)
RunToSuspension(t, m) ==
    IF m.rec.pc \notin {"sub_ack", "reply"} THEN m
    ELSE IF Readable(m.conns, m.rec.rd)
      THEN RunToSuspension(t, Read(m.rec, m.conns))
    ELSE IF m.conns[m.rec.rd].waiter # None
      THEN Machine(Failed(m.rec, [type |-> "RuntimeError"], "busy"), m.conns)
    ELSE Machine(m.rec, [m.conns EXCEPT ![m.rec.rd].waiter = t])

Commit(t, m) ==
    /\ task' = [task EXCEPT ![t] = m.rec]
    /\ conns' = m.conns
    /\ lastFail' = IF m.rec.pc = "idle" THEN m.rec.cause \in TransportCauses
                   ELSE lastFail

\* The operation starts and runs to its first suspension: _reconnect's
\* test, then either open_connection or the request.
Begin(t, frame) ==
    /\ client.state = "ok"
    /\ task[t].pc = "idle"
    /\ ops < MaxOps
    /\ ops' = ops + 1
    /\ LET rec == [frame EXCEPT !.startAlive = TransportAlive,
                                !.afterFail = lastFail,
                                !.afterRowFailure = (task[t].kind = "query"
                                                     /\ task[t].cause = "row"),
                                !.serial = ops + 1]
       IN  IF NeedsReconnect(writer, conns)
             THEN Commit(t, Machine([rec EXCEPT !.pc = "connecting", !.attempts = 1],
                                    conns))
             ELSE Commit(t, RunToSuspension(t, WriteRequest(rec, conns, writer, reader)))
    /\ UNCHANGED <<client, args, reader, writer>>

QueryFrame(op, query, room_id) ==
    [IdleTask EXCEPT !.op = op, !.kind = "query", !.query = query, !.room_id = room_id]

SendFrame(op, command, room_id, channel_id, values) ==
    [IdleTask EXCEPT !.op = op, !.kind = "send", !.command = command,
                     !.room_id = room_id, !.channel_id = channel_id, !.values = values]

\* The public operations
get_channels(t, room_ids) ==
    /\ task[t].pc = "idle"
    /\ \E room_id \in room_ids : Begin(t, QueryFrame("get_channels", "CHANNEL", room_id))

get_colours(t, room_ids) ==
    /\ task[t].pc = "idle"
    /\ \E room_id \in room_ids : Begin(t, QueryFrame("get_colours", "COLOR", room_id))

get_colours_levels(t, room_ids) ==
    /\ task[t].pc = "idle"
    /\ \E room_id \in room_ids :
           Begin(t, QueryFrame("get_colours_levels", "COLOR_LEVEL", room_id))

get_hub_info(t) ==
    /\ task[t].pc = "idle"
    /\ Begin(t, [IdleTask EXCEPT !.op = "get_hub_info", !.kind = "status"])

get_levels(t, room_ids) ==
    /\ task[t].pc = "idle"
    /\ \E room_id \in room_ids : Begin(t, QueryFrame("get_levels", "LEVEL", room_id))

get_rooms(t, room_ids) ==
    /\ task[t].pc = "idle"
    /\ \E room_id \in room_ids : Begin(t, QueryFrame("get_rooms", "ROOM", room_id))

get_scenes(t, room_ids) ==
    /\ task[t].pc = "idle"
    /\ \E room_id \in room_ids : Begin(t, QueryFrame("get_scenes", "SCENE", room_id))

set_level(t) ==
    /\ task[t].pc = "idle"
    /\ \E room_id \in RoomIds, channel_id \in ChannelIds, level \in Levels :
           Begin(t, SendFrame("set_level", "LEVEL", room_id, channel_id, <<level>>))

set_rgb(t) ==
    /\ task[t].pc = "idle"
    /\ \E room_id \in RoomIds, channel_id \in ChannelIds, rgb \in Colours :
           Begin(t, SendFrame("set_rgb", "RGB", room_id, channel_id,
                              <<rgb[1], rgb[2], rgb[3]>>))

set_scene(t) ==
    /\ task[t].pc = "idle"
    /\ \E room_id \in RoomIds, channel_id \in ChannelIds, scene \in {3} :
           Begin(t, SendFrame("set_scene", "SCENE", room_id, channel_id, <<scene>>))

set_kelvin(t) ==
    /\ task[t].pc = "idle"
    /\ \E room_id \in RoomIds, channel_id \in ChannelIds, temperature \in {2700} :
           Begin(t, SendFrame("set_kelvin", "KELVIN", room_id, channel_id, <<temperature>>))

start_fading_down(t) ==
    /\ task[t].pc = "idle"
    /\ \E room_id \in RoomIds, channel_id \in ChannelIds :
           Begin(t, SendFrame("start_fading_down", "FADE_DOWN", room_id, channel_id, <<1>>))

start_fading_up(t) ==
    /\ task[t].pc = "idle"
    /\ \E room_id \in RoomIds, channel_id \in ChannelIds :
           Begin(t, SendFrame("start_fading_up", "FADE_UP", room_id, channel_id, <<1>>))

stop_fading(t) ==
    /\ task[t].pc = "idle"
    /\ \E room_id \in RoomIds, channel_id \in ChannelIds :
           Begin(t, SendFrame("stop_fading", "FADE_STOP", room_id, channel_id, <<1>>))

store_scene(t) ==
    /\ task[t].pc = "idle"
    /\ \E room_id \in RoomIds, channel_id \in ChannelIds, scene \in {3} :
           Begin(t, SendFrame("store_scene", "STORE", room_id, channel_id, <<scene>>))

\* self._reader, self._writer = ... drops the client's reference to the
\* writer it replaces.  The code never closes a writer; whether the
\* interpreter does depends on the build: a StreamWriter with a finalizer
\* (CPython 3.11.5 and later) closes the transport of an unreferenced writer
\* that is still open, during the assignment: is_closing() is true at once,
\* the socket is read no more, and connection_lost(None) is queued.  The
\* reader and a coroutine waiting in its readline() learn nothing yet.
\* Without a finalizer the connection stays open.
Replaced(cs, w) ==
    IF w = None \/ cs[w].closing \/ cs[w].finalized THEN {cs}
    ELSE {cs, [cs EXCEPT ![w].finalized = TRUE, ![w].closing = TRUE,
                         ![w].pending = <<>>, ![w].rows = 0]}

\* A lost connection that neither the client nor a coroutine refers to any
\* more: its reader and writer are unreachable objects, and nothing of
\* them is left but that the connection is gone.
Gone == [NewConn EXCEPT !.closing = TRUE, !.lost = TRUE]

Unreferenced(cs, w, tk) ==
    [c \in 1..Len(cs) |->
        IF cs[c].lost /\ w # c /\ \A t \in Tasks : tk[t].rd # c /\ tk[t].wr # c
          THEN Gone ELSE cs[c]]

\* The connection open_connection returns: open, or already reset by the
\* hub, with or without a shutdown before the reset.
FreshConns ==
    {NewConn, [NewConn EXCEPT !.reset = TRUE],
     [NewConn EXCEPT !.reset = TRUE, !.pipe = TRUE]}

\* _reconnect: open_connection returned; SUB is written, drained, and the
\* acknowledgement awaited.  The hub may have reset the new connection
\* before the coroutine runs again: the write of SUB then finds the reset
\* and the coroutine waits in drain().
Connected(t) ==
    /\ task[t].pc = "connecting"
    /\ \E cs0 \in Replaced(conns, writer), fresh \in FreshConns :
        LET c    == Len(cs0) + 1
            cs1  == Write(Append(cs0, fresh), c,
                          [kind |-> "sub", query |-> "none", serial |-> task[t].serial])
            rec1 == [task[t] EXCEPT !.wire = Append(@, SubRequest(client.client_name)),
                                    !.opened = @ + 1]
        IN  /\ reader' = c
            /\ writer' = c
            /\ LET m == IF cs1[c].closing
                          THEN Machine(CallDrain(rec1, c), cs1)
                          ELSE RunToSuspension(t, Machine(CallReadline(rec1, c, "sub_ack"), cs1))
               IN  Commit(t, Machine(m.rec, Unreferenced(m.conns, c,
                                                         [task EXCEPT ![t] = m.rec])))
    /\ UNCHANGED <<client, args, ops>>

\* _reconnect with a second open_connection after the first one raised
ConnectFailed_Retry(t) ==
    /\ task[t].pc = "connecting"
    /\ IF task[t].attempts < 2
         THEN Commit(t, Machine([task[t] EXCEPT !.attempts = @ + 1], conns))
         ELSE Commit(t, Machine(Failed(task[t], [type |-> "OSError"], "connect"), conns))
    /\ UNCHANGED <<client, args, reader, writer, ops>>

\* _reconnect: open_connection raised
ConnectFailed(t) ==
    /\ task[t].pc = "connecting"
    /\ Commit(t, Machine(Failed(task[t], [type |-> "OSError"], "connect"), conns))
    /\ UNCHANGED <<client, args, reader, writer, ops>>

\* The coroutine resumes in drain().  The transport's connection_lost() was
\* queued before the coroutine gave way, so it has run by now, here in the
\* same step if not before; drain() raises ConnectionResetError("Connection
\* lost") whatever the exception the reader was given.
DrainResume(t) ==
    /\ task[t].pc = "drain"
    /\ Commit(t, Machine(Failed(task[t], [type |-> "ConnectionResetError"], "lost"),
                         IF conns[task[t].wr].lost THEN conns
                         ELSE LostCallback(conns, task[t].wr)))
    /\ UNCHANGED <<client, args, reader, writer, ops>>

\* _reconnect: the coroutine resumes in the readline() after SUB.
ReadSubAck(t) ==
    /\ task[t].pc = "sub_ack"
    /\ Woken(t)
    /\ Commit(t, RunToSuspension(t, Machine(task[t], conns)))
    /\ UNCHANGED <<client, args, reader, writer, ops>>

\* _query: the coroutine resumes in the readline() of the loop.
QueryReadLine(t) ==
    /\ task[t].pc = "reply" /\ task[t].kind = "query"
    /\ Woken(t)
    /\ Commit(t, RunToSuspension(t, Machine(task[t], conns)))
    /\ UNCHANGED <<client, args, reader, writer, ops>>

\* _send: the coroutine resumes in the readline() of the reply.
SendReadReply(t) ==
    /\ task[t].pc = "reply" /\ task[t].kind = "send"
    /\ Woken(t)
    /\ Commit(t, RunToSuspension(t, Machine(task[t], conns)))
    /\ UNCHANGED <<client, args, reader, writer, ops>>

\* get_hub_info: the coroutine resumes in the readline() of the reply.
StatusReadReply(t) ==
    /\ task[t].pc = "reply" /\ task[t].kind = "status"
    /\ Woken(t)
    /\ Commit(t, RunToSuspension(t, Machine(task[t], conns)))
    /\ UNCHANGED <<client, args, reader, writer, ops>>

\* The caller cancels the operation (task.cancel(), or the timeout of a
\* wait_for around it) while it waits: for open_connection, in drain(), or
\* in readline() for the line after SUB or for the reply.  CancelledError
\* is raised at the await; readline()'s wait gives up the reader, and a
\* coroutine in drain() meets the cancellation when it resumes, after the
\* queued connection_lost().
Cancel(t) ==
    /\ task[t].pc \in {"connecting", "drain", "sub_ack", "reply"}
    /\ Commit(t, Machine(Failed(task[t], [type |-> "CancelledError"], "cancelled"),
                         IF task[t].rd # None /\ conns[task[t].rd].waiter = t
                           THEN [conns EXCEPT ![task[t].rd].waiter = None]
                         ELSE IF task[t].wr # None /\ ~conns[task[t].wr].lost
                           THEN LostCallback(conns, task[t].wr)
                         ELSE conns))
    /\ UNCHANGED <<client, args, reader, writer, ops>>

(***************************************************************************)
(* The hub and the network.                                                *)
(***************************************************************************)
Reply(c, line) ==
    [line |-> line, serial |-> Head(conns[c].pending).serial,
     kind |-> Head(conns[c].pending).kind]

\* A connection_lost() is queued.  The event loop runs what is queued
\* before it polls the sockets again, so what it reads from a socket it
\* reads when nothing is queued; a socket readable at the same poll as the
\* one that closed a transport is taken as read before it, the two being
\* different connections.  The connection_lost(None) of a finalized
\* writer's transport changes nothing when its reader is at the end of the
\* stream already, and is not told from one that has run.
Queued(c) ==
    /\ conns[c].closing /\ ~conns[c].lost
    /\ conns[c].finalized => ~conns[c].eof

CallbackQueued == \E c \in 1..Len(conns) : Queued(c)

\* An operation is running or can still start.  What the hub does to a
\* connection once the last operation has ended, no operation meets: the
\* run is cut there.
Observable == ops < MaxOps \/ \E t \in Tasks : task[t].pc # "idle"

Serving(c, kind) ==
    /\ c \in 1..Len(conns)
    /\ Observable /\ ~CallbackQueued
    /\ ~conns[c].eof /\ ~conns[c].reset /\ ~conns[c].closing
    /\ conns[c].pending # <<>>
    /\ Head(conns[c].pending).kind = kind

\* The hub acknowledges SUB with one line.
HubSubAck ==
    \E c \in 1..Len(conns) :
        /\ Serving(c, "sub")
        /\ conns' = [conns EXCEPT ![c].inbox = Append(@, Reply(c, SubAckLine)),
                                  ![c].pending = Tail(@),
                                  ![c].waiter = None]
        /\ UNCHANGED <<client, args, reader, writer, task, ops, lastFail>>

\* The hub sends a header line or a row of the query it is answering, once
\* the line before it was read.
HubRow ==
    \E c \in 1..Len(conns) :
        /\ Serving(c, "query") /\ conns[c].inbox = <<>>
        /\ conns[c].rows < MaxRows
        /\ \E line \in Rows(Head(conns[c].pending).query) \cup {HeaderLine} :
              conns' = [conns EXCEPT ![c].inbox = Append(@, Reply(c, line)),
                                     ![c].rows = @ + 1,
                                     ![c].waiter = None]
        /\ UNCHANGED <<client, args, reader, writer, task, ops, lastFail>>

\* The hub ends its answer to a query.
HubComplete ==
    \E c \in 1..Len(conns) :
        /\ Serving(c, "query") /\ conns[c].inbox = <<>>
        /\ \E line \in CompleteLines :
              conns' = [conns EXCEPT ![c].inbox = Append(@, Reply(c, line)),
                                     ![c].rows = 0,
                                     ![c].pending = Tail(@),
                                     ![c].waiter = None]
        /\ UNCHANGED <<client, args, reader, writer, task, ops, lastFail>>

\* The hub accepts or rejects a command.
HubCommandReply ==
    \E c \in 1..Len(conns) :
        /\ Serving(c, "send")
        /\ \E line \in {AckLine} \cup AErrorLines :
              conns' = [conns EXCEPT ![c].inbox = Append(@, Reply(c, line)),
                                     ![c].pending = Tail(@),
                                     ![c].waiter = None]
        /\ UNCHANGED <<client, args, reader, writer, task, ops, lastFail>>

\* The hub answers STATUS.
HubStatusReply ==
    \E c \in 1..Len(conns) :
        /\ Serving(c, "status")
        /\ \E line \in {StatusLine, StatusShort} :
              conns' = [conns EXCEPT ![c].inbox = Append(@, Reply(c, line)),
                                     ![c].pending = Tail(@),
                                     ![c].waiter = None]
        /\ UNCHANGED <<client, args, reader, writer, task, ops, lastFail>>

\* A connection the client still uses.
InUse(c) ==
    /\ c \in 1..Len(conns)
    /\ \/ writer = c
       \/ \E t \in Tasks : task[t].rd = c \/ task[t].wr = c

\* The hub closes its side: end of stream for the reader.  The transport
\* stays open for writing (StreamReaderProtocol.eof_received keeps it), so
\* is_closing() stays false.
HubCloses ==
    \E c \in 1..Len(conns) :
        /\ InUse(c) /\ Observable /\ ~CallbackQueued
        /\ ~conns[c].eof /\ ~conns[c].reset /\ ~conns[c].closing
        /\ conns' = [conns EXCEPT ![c].eof = TRUE, ![c].pending = <<>>, ![c].rows = 0,
                                  ![c].waiter = None]
        /\ UNCHANGED <<client, args, reader, writer, task, ops, lastFail>>

\* The hub resets the connection (or the network breaks it), after shutting
\* its side down or without: the socket holds the error, and neither the
\* transport nor the reader knows of it yet.  After a shutdown, one the
\* event loop has read or one it has not, the socket's error is EPIPE.
HubResets ==
    \E c \in 1..Len(conns) :
        /\ InUse(c) /\ Observable
        /\ ~conns[c].reset /\ ~conns[c].closing
        /\ \E shut \in (IF conns[c].eof THEN {TRUE} ELSE BOOLEAN) :
              conns' = [conns EXCEPT ![c].reset = TRUE, ![c].pipe = shut,
                                     ![c].pending = <<>>, ![c].rows = 0]
        /\ UNCHANGED <<client, args, reader, writer, task, ops, lastFail>>

\* The event loop reads the socket and finds the reset (_read_ready): the
\* transport closes with ConnectionResetError, is_closing() is true from
\* now on, and connection_lost() is queued, not called: coroutines already
\* due to run come first and meet a transport that is closing while its
\* reader holds no exception yet.  After the end of the stream the loop
\* reads the socket no more.
ReadReady ==
    \E c \in 1..Len(conns) :
        /\ ~CallbackQueued
        /\ conns[c].reset /\ ~conns[c].pipe /\ ~conns[c].closing /\ ~conns[c].eof
        /\ conns' = [conns EXCEPT ![c].closing = TRUE, ![c].reset = FALSE,
                                  ![c].exc = "ConnectionResetError"]
        /\ UNCHANGED <<client, args, reader, writer, task, ops, lastFail>>

\* The queued connection_lost() runs.  Of a transport that closed with an
\* error: the reader is given the exception, and reads and drains raise.
\* Of a transport its writer's finalizer closed: the reader is fed the end
\* of the stream.
ConnectionLost ==
    \E c \in 1..Len(conns) :
        /\ Queued(c)
        /\ conns' = IF conns[c].finalized
                       THEN ClosedCallback(conns, c)
                       ELSE Unreferenced(LostCallback(conns, c), writer, task)
        /\ UNCHANGED <<client, args, reader, writer, task, ops, lastFail>>

\* The event loop reads the socket of a connection shut down and then
\* reset: the read gives the end of the stream, not the error.  The
\* transport stays open, and the error is left for the next write.
EofReceived ==
    \E c \in 1..Len(conns) :
        /\ ~CallbackQueued
        /\ conns[c].reset /\ conns[c].pipe /\ ~conns[c].closing /\ ~conns[c].eof
        /\ conns' = [conns EXCEPT ![c].eof = TRUE, ![c].waiter = None]
        /\ UNCHANGED <<client, args, reader, writer, task, ops, lastFail>>

(***************************************************************************)
(* Specifications                                                          *)
(***************************************************************************)
Operation(t) ==
    \/ get_channels(t, OptRoomIds)
    \/ get_colours(t, OptRoomIds)
    \/ get_colours_levels(t, OptRoomIds)
    \/ get_hub_info(t)
    \/ get_levels(t, OptRoomIds)
    \/ get_rooms(t, OptRoomIds)
    \/ get_scenes(t, OptRoomIds)
    \/ set_level(t)
    \/ set_rgb(t)
    \/ set_scene(t)
    \/ set_kelvin(t)
    \/ start_fading_down(t)
    \/ start_fading_up(t)
    \/ stop_fading(t)
    \/ store_scene(t)

Resume(t) ==
    \/ Connected(t)
    \/ ConnectFailed(t)
    \/ DrainResume(t)
    \/ ReadSubAck(t)
    \/ QueryReadLine(t)
    \/ SendReadReply(t)
    \/ StatusReadReply(t)

Network ==
    \/ HubSubAck
    \/ HubRow
    \/ HubComplete
    \/ HubCommandReply
    \/ HubStatusReply
    \/ HubCloses
    \/ HubResets
    \/ ReadReady
    \/ ConnectionLost
    \/ EofReceived

\* A caller that awaits each operation before it starts the next.
Next ==
    \/ Construct(UseNames, UseHosts, UsePorts)
    \/ \E t \in SeqTasks : Operation(t)
    \/ \E t \in SeqTasks : Resume(t)
    \/ Network

Spec == Init /\ [][Next]_vars

\* Two callers that start operations while others are in flight: both send
\* a command or the status request, and the first also queries.
ConcurrentOperation(t) ==
    \/ get_hub_info(t)
    \/ set_rgb(t)

NextConcurrent ==
    \/ Construct(UseNames, UseHosts, UsePorts)
    \/ get_colours(1, OptRoomIds)
    \/ \E t \in Tasks : ConcurrentOperation(t)
    \/ \E t \in Tasks : Resume(t)
    \/ Network

SpecConcurrent == Init /\ [][NextConcurrent]_vars

\* A caller that awaits each operation before it starts the next, and may
\* cancel the one it awaits.
NextCancel ==
    \/ Next
    \/ \E t \in SeqTasks : Cancel(t)

SpecCancel == Init /\ [][NextCancel]_vars

\* A caller that awaits one query after another, with the scheduling the
\* event loop gives: a coroutine that can resume does resume
\* (open_connection returns or raises, a woken readline() runs), and the
\* hub in the end answers the query it is serving with QUERY_COMPLETE, or
\* the stream ends.  Each of the six query operations is called, without a
\* room id: the id goes into the request line (QueryRequest) and nowhere
\* else, and _query's reading loop does not look at it.
Query(t) ==
    \/ get_channels(t, Unscoped)
    \/ get_colours(t, Unscoped)
    \/ get_colours_levels(t, Unscoped)
    \/ get_levels(t, Unscoped)
    \/ get_rooms(t, Unscoped)
    \/ get_scenes(t, Unscoped)

QueryResume(t) ==
    \/ Connected(t)
    \/ ConnectFailed(t)
    \/ DrainResume(t)
    \/ ReadSubAck(t)
    \/ QueryReadLine(t)

HubEnds == HubComplete \/ HubCloses \/ HubResets

NextLive ==
    \/ Construct(UseNames, UseHosts, UsePorts)
    \/ \E t \in SeqTasks : Query(t)
    \/ \E t \in SeqTasks : QueryResume(t)
    \/ HubSubAck
    \/ HubRow
    \/ HubEnds
    \/ ReadReady
    \/ ConnectionLost
    \/ EofReceived

\* The coroutine can resume: open_connection has an outcome to deliver, or
\* the readline() it waits in was woken.  This is when QueryResume(t) is
\* enabled.
CanResume(t) ==
    \/ task[t].pc \in {"connecting", "drain"}
    \/ task[t].pc \in {"sub_ack", "reply"} /\ Woken(t)

\* Weak fairness of the resumptions, WF_vars(\E t \in SeqTasks :
\* QueryResume(t)), with the enabling condition written out: the event
\* loop runs a coroutine that can run.
ResumeFair ==
    \/ []<>(\A t \in SeqTasks : ~CanResume(t))
    \/ []<><<\E t \in SeqTasks : QueryResume(t)>>_vars

\* The hub in the end sends QUERY_COMPLETE or ends the stream (the claim's
\* proviso); the event loop reads a socket that holds a reset or the end
\* of the stream, and runs the connection_lost() it has queued.
SpecLive ==
    /\ Init /\ [][NextLive]_vars
    /\ ResumeFair
    /\ WF_vars(HubEnds)
    /\ WF_vars(ReadReady)
    /\ WF_vars(ConnectionLost)
    /\ WF_vars(EofReceived)

\* Construction alone, over all the constructor arguments.
NextConstruct == Construct(AllNames, AllHosts, AllPorts)

SpecConstruct == Init /\ [][NextConstruct]_vars

(***************************************************************************)
(* Vocabulary of the properties.                                           *)
(***************************************************************************)
\* The protocol's notion of a line, as the specification states it and not
\* as the code computes it: the text of a line without its terminator, its
\* comma-separated fields, and the three kinds of line of a reply.
Content(line) ==
    IF Len(line) >= 2 /\ SubSeq(line, Len(line) - 1, Len(line)) = CRLF
      THEN SubSeq(line, 1, Len(line) - 2)
    ELSE IF Len(line) >= 1 /\ line[Len(line)] = "\n"
      THEN SubSeq(line, 1, Len(line) - 1)
    ELSE line

Fields(line) == Split(Content(line), ",")

FirstField(line) == Fields(line)[1]

IsHeader(line)   == FirstField(line) = Text("QUERY_HEADER")
IsComplete(line) == FirstField(line) = Text("QUERY_COMPLETE")
IsData(line)     == ~IsHeader(line) /\ ~IsComplete(line)

DataLines(lines) == SelectSeq(lines, IsData)

\* One record per line, in the order of the lines.
Records(query, lines) == [i \in 1..Len(lines) |-> Func(query, Split(lines[i], ","))]

\* Decimal numerals of the numbers the operations are called with.
Decimal(n) ==
    CASE n = 0    -> <<"0">>
      [] n = 1    -> <<"1">>
      [] n = 2    -> <<"2">>
      [] n = 3    -> <<"3">>
      [] n = 10   -> <<"1", "0">>
      [] n = 20   -> <<"2", "0">>
      [] n = 30   -> <<"3", "0">>
      [] n = 100  -> <<"1", "0", "0">>
      [] n = 2700 -> <<"2", "7", "0", "0">>

Count(lines, line) == Cardinality({i \in 1..Len(lines) : lines[i] = line})

Started(t)  == task[t].op # "none"
Finished(t) == task[t].op # "none" /\ task[t].pc = "idle"

TheSubLine == HubLine(<<<<"S","U","B">>, <<"B","A","S","I","C">>, <<"V","4">>,
                        client.client_name>>)

(***************************************************************************)
(* C1.  An operation that starts while the transport exists and is not     *)
(* closed or closing opens no connection and writes no SUB line.  An       *)
(* operation that starts with no transport, or a closed or closing one,    *)
(* calls open_connection once, and whatever it writes begins with one SUB  *)
(* line on the new connection, its request line coming second.             *)
(***************************************************************************)
C1_HandshakeOnlyWhenDead ==
    \A t \in Tasks : Started(t) =>
        LET rec == task[t] IN
        /\ rec.startAlive =>
              /\ rec.attempts = 0 /\ rec.opened = 0
              /\ Count(rec.wire, TheSubLine) = 0
        /\ ~rec.startAlive =>
              /\ rec.attempts = 1 /\ rec.opened <= 1
              /\ (rec.opened = 1) = (rec.wire # <<>>)
              /\ rec.wire # <<>> =>
                    /\ rec.wire[1] = TheSubLine
                    /\ Count(rec.wire, TheSubLine) = 1
                    /\ Len(rec.wire) <= 2
                    /\ Len(rec.wire) = 2 => rec.wire[2] = Request(rec)
              /\ rec.outcome = "ok" => Len(rec.wire) = 2

\* The second operation started when the event loop had closed the first
\* connection and not yet called its connection_lost(), which is still
\* queued: it found the transport closing, opened the second connection and
\* wrote SUB on it, once.
C1_Witness ==
    \E t \in Tasks :
        /\ task[t].serial = 2 /\ ~task[t].startAlive
        /\ Len(conns) = 2 /\ writer = 2
        /\ conns[1].closing /\ ~conns[1].lost
        /\ task[t].attempts = 1 /\ task[t].opened = 1
        /\ task[t].wire = <<TheSubLine>>

\* The number of fields of a row of each entity, its name included.
FieldCount(query) ==
    CASE query = "CHANNEL"     -> 24
      [] query = "COLOR"       -> 6
      [] query = "COLOR_LEVEL" -> 8
      [] query = "LEVEL"       -> 6
      [] query = "ROOM"        -> 5
      [] query = "SCENE"       -> 4

WellFormed(query, line) == IsData(line) /\ Len(Fields(line)) = FieldCount(query)

TransportErrors == {"OSError", "ConnectionResetError", "BrokenPipeError", "RuntimeError"}

(***************************************************************************)
(* C2.  When the lines a query has read are QUERY_HEADER lines and rows of *)
(* the entity followed by a QUERY_COMPLETE line, the query returns one     *)
(* record per row, in the order of the rows.                               *)
(***************************************************************************)
C2_OneRecordPerDataLine ==
    \A t \in Tasks : (Started(t) /\ task[t].kind = "query") =>
        LET rx == task[t].rx
            n  == Len(rx)
        IN  ( /\ n >= 1
              /\ rx[n] # <<>> /\ IsComplete(rx[n])
              /\ \A i \in 1..(n - 1) :
                    IsHeader(rx[i]) \/ WellFormed(task[t].query, rx[i]) )
            => /\ task[t].outcome = "ok"
               /\ task[t].result = Records(task[t].query, DataLines(rx))

(***************************************************************************)
(* C3.  A command writes one SEND line and reads one reply line; it fails  *)
(* with the SendCommandError naming command, room and channel exactly when *)
(* the first field of that line is AERROR, and returns otherwise.          *)
(***************************************************************************)
C3_CommandReply ==
    \A t \in Tasks :
        ( /\ Finished(t) /\ task[t].kind = "send"
          /\ task[t].error.type \notin TransportErrors ) =>
            LET rec == task[t] IN
            /\ Len(rec.rx) = 1
            /\ Count(rec.wire, Request(rec)) = 1
            /\ (rec.op = "set_level" /\ rec.values = <<100>>) =>
                  rec.wire[Len(rec.wire)] =
                      <<"S","E","N","D",",","1",",","2",",","L","E","V","E","L",",",
                        "1","0","0","\r","\n">>
            /\ FirstField(rec.rx[1]) = Text("AERROR") =>
                  /\ rec.outcome = "error"
                  /\ rec.error = [type |-> "SendCommandError", command |-> rec.command,
                                  room_id |-> rec.room_id, channel_id |-> rec.channel_id]
            /\ FirstField(rec.rx[1]) # Text("AERROR") => rec.outcome = "ok"

(***************************************************************************)
(* C5.  After an operation ended in a transport failure, the next          *)
(* operation opens a connection and writes SUB before its request.         *)
(***************************************************************************)
C5_FreshConnectionAfterFailure ==
    \A t \in Tasks : (Started(t) /\ task[t].afterFail) =>
        /\ task[t].attempts = 1
        /\ task[t].wire # <<>> => task[t].wire[1] = TheSubLine

(***************************************************************************)
(* C6.  The request line of a command is SEND, the room id, the channel    *)
(* id and the command, separated by commas, then a comma, the decimal      *)
(* values one after the other with nothing between them, and CRLF.         *)
(* set_rgb(1, 2, 10, 20, 30) writes SEND,1,2,RGB,102030 CRLF, and the fade *)
(* commands carry the one value 1.                                         *)
(***************************************************************************)
CommandOf(op) ==
    CASE op = "set_level"         -> "LEVEL"
      [] op = "set_rgb"           -> "RGB"
      [] op = "set_scene"         -> "SCENE"
      [] op = "set_kelvin"        -> "KELVIN"
      [] op = "start_fading_down" -> "FADE_DOWN"
      [] op = "start_fading_up"   -> "FADE_UP"
      [] op = "stop_fading"       -> "FADE_STOP"
      [] op = "store_scene"       -> "STORE"

SentRequest(t) == task[t].wire[Len(task[t].wire)]

HasRequest(t) ==
    /\ Started(t) /\ task[t].wire # <<>>
    /\ SentRequest(t) # TheSubLine

C6_CommandLine ==
    \A t \in Tasks : (HasRequest(t) /\ task[t].kind = "send") =>
        LET rec    == task[t]
            line   == SentRequest(t)
            fields == Fields(line)
        IN  /\ SubSeq(line, Len(line) - 1, Len(line)) = CRLF
            /\ Len(fields) = 5
            /\ fields[1] = <<"S","E","N","D">>
            /\ fields[2] = Decimal(rec.room_id)
            /\ fields[3] = Decimal(rec.channel_id)
            /\ fields[4] = Text(CommandOf(rec.op))
            /\ fields[5] = Concat([i \in 1..Len(rec.values) |-> Decimal(rec.values[i])])
            /\ rec.op = "set_rgb" /\ rec.values = <<10, 20, 30>> =>
                  line = <<"S","E","N","D",",","1",",","2",",","R","G","B",",",
                           "1","0","2","0","3","0","\r","\n">>
            /\ rec.op \in {"start_fading_down", "start_fading_up", "stop_fading"} =>
                  fields[5] = <<"1">>

\* set_rgb(1, 2, 10, 20, 30) has written its request.
C6_Witness ==
    \E t \in Tasks :
        /\ HasRequest(t) /\ task[t].op = "set_rgb"
        /\ task[t].room_id = 1 /\ task[t].channel_id = 2
        /\ task[t].values = <<10, 20, 30>>

(***************************************************************************)
(* C7.  The request line of a query is QUERY,<name>,<room_id> CRLF when a  *)
(* room id is given, room id 0 included, and QUERY,<name> CRLF when none   *)
(* is; what a query returns is one record per row read before              *)
(* QUERY_COMPLETE, whether or not it was scoped to a room.                 *)
(***************************************************************************)
C7_QueryLine ==
    \A t \in Tasks : (HasRequest(t) /\ task[t].kind = "query") =>
        LET rec  == task[t]
            line == SentRequest(t)
        IN  /\ line = IF rec.room_id = <<>>
                        THEN HubLine(<<<<"Q","U","E","R","Y">>, Text(rec.query)>>)
                        ELSE HubLine(<<<<"Q","U","E","R","Y">>, Text(rec.query),
                                       Decimal(rec.room_id[1])>>)
            /\ (rec.op = "get_rooms" /\ rec.room_id = <<0>>) =>
                  line = <<"Q","U","E","R","Y",",","R","O","O","M",",","0","\r","\n">>
            /\ (rec.op = "get_rooms" /\ rec.room_id = <<>>) =>
                  line = <<"Q","U","E","R","Y",",","R","O","O","M","\r","\n">>
            /\ (rec.pc = "idle" /\ rec.outcome = "ok") =>
                  /\ IsComplete(rec.rx[Len(rec.rx)])
                  /\ rec.result = Records(rec.query,
                                          DataLines(SubSeq(rec.rx, 1, Len(rec.rx) - 1)))

\* get_rooms(0) returned a room for each of the two rows the hub sent, in
\* their order.
C7_Witness ==
    \E t \in Tasks :
        /\ Finished(t) /\ task[t].op = "get_rooms" /\ task[t].room_id = <<0>>
        /\ task[t].outcome = "ok"
        /\ Len(task[t].result) = 2
        /\ task[t].result[1].room_id = <<"1">>
        /\ task[t].result[2].room_id = <<"4">>

(***************************************************************************)
(* C8.  A query that returns has read no row whose number of fields is     *)
(* other than that of its entity.                                          *)
(***************************************************************************)
C8_MalformedRowFails ==
    \A t \in Tasks :
        (Finished(t) /\ task[t].kind = "query" /\ task[t].outcome = "ok") =>
            \A i \in 1..(Len(task[t].rx) - 1) :
                IsData(task[t].rx[i]) => WellFormed(task[t].query, task[t].rx[i])

(***************************************************************************)
(* C4.  With operations started concurrently on one client, no two         *)
(* requests are outstanding at once, and no operation reads a line the hub *)
(* sent in answer to another request.                                      *)
(***************************************************************************)
C4_RequestsSerialized ==
    /\ \A t, u \in Tasks :
          (task[t].pc = "reply" /\ task[u].pc = "reply") => t = u
    /\ \A t \in Tasks : ~task[t].foreign

(***************************************************************************)
(* C9.  Constructing with a host that is empty or all whitespace fails     *)
(* with a configuration error, the declared kind ConfigValidationError,    *)
(* that names the host; and construction, failed or not, opens no          *)
(* connection and leaves the client without reader and writer.             *)
(***************************************************************************)
Blank(s) == \A i \in 1..Len(s) : s[i] \in Whitespace

ConfigurationError(message) ==
    /\ client.state = "failed"
    /\ client.raised = "ConfigValidationError"
    /\ client.error = message

C9_BlankHostRejected ==
    client.state # "new" =>
        /\ Blank(args.host) =>
              ConfigurationError("RakoHub: host parameter cannot be empty")
        /\ conns = <<>> /\ reader = None /\ writer = None

(***************************************************************************)
(* C10.  With a valid host and client name, construction succeeds exactly  *)
(* when 0 <= port <= 65535: -1 and 65536 fail with a configuration error,  *)
(* the declared kind ConfigValidationError, that names the port; 0 and     *)
(* 65535 are accepted.                                                     *)
(***************************************************************************)
ValidName(s) == ~Blank(s) /\ \A i \in 1..Len(s) : s[i] # ","

C10_PortRange ==
    (client.state # "new" /\ ~Blank(args.host) /\ ValidName(args.client_name)) =>
        /\ (client.state = "ok") = (args.port >= 0 /\ args.port <= 65535)
        /\ args.port \in {-1, 65536} =>
              ConfigurationError("RakoHub: port should be between 0 and 65535")
        /\ args.port \in {0, 65535} => (client.state = "ok" /\ client.port = args.port)

(***************************************************************************)
(* C11.  Constructing with a client name that holds a comma, or is empty   *)
(* once trimmed, fails with a configuration error, the declared kind       *)
(* ConfigValidationError, which names the client name when host and port   *)
(* are valid; and the SUB line of every client that was constructed has    *)
(* exactly four comma-separated fields.                                    *)
(***************************************************************************)
C11_ClientNameRejected ==
    client.state # "new" =>
        /\ (Blank(args.client_name) \/ Contains(args.client_name, ",")) =>
              /\ client.state = "failed"
              /\ client.raised = "ConfigValidationError"
              /\ (~Blank(args.host) /\ args.port \in 0..65535) =>
                    client.error =
                        IF Blank(args.client_name)
                          THEN "RakoHub: client_name parameter cannot be empty"
                          ELSE "RakoHub: invalid character ',' in client_name"
        /\ client.state = "ok" =>
              /\ Len(Fields(SubRequest(client.client_name))) = 4
              /\ Fields(SubRequest(client.client_name))[4] = client.client_name

(***************************************************************************)
(* C12.  Every Channel that get_channels returns has a scenes_level that   *)
(* maps exactly the keys 1..16, key i to field 7+i of the channel's row,   *)
(* the sixteenth without the line terminator.                              *)
(***************************************************************************)
C12_ScenesLevel ==
    \A t \in Tasks :
        (Finished(t) /\ task[t].op = "get_channels" /\ task[t].outcome = "ok") =>
            LET rows == DataLines(task[t].rx) IN
            /\ Len(task[t].result) = Len(rows)
            /\ \A k \in 1..Len(task[t].result) :
                  LET r == task[t].result[k]
                      f == Fields(rows[k])
                  IN  /\ "scenes_level" \in DOMAIN r
                      /\ DOMAIN r.scenes_level = 1..16
                      /\ \A i \in 1..16 : r.scenes_level[i] = f[8 + i]

(***************************************************************************)
(* C13.  A failed TCP connect propagates to the caller of the operation    *)
(* that triggered it: the operation ends with the connect error after      *)
(* exactly one connect attempt, having opened no connection and written    *)
(* neither SUB nor its request line; the client is left needing a          *)
(* reconnect, and the next operation starts with a connect attempt of its  *)
(* own.                                                                    *)
(***************************************************************************)
ConnectFailure(t) == Finished(t) /\ task[t].cause = "connect"

C13_ConnectFailurePropagates ==
    /\ [](\A t \in Tasks : ConnectFailure(t) =>
             /\ task[t].outcome = "error"
             /\ task[t].error = [type |-> "OSError"]
             /\ task[t].attempts = 1
             /\ task[t].opened = 0
             /\ task[t].wire = <<>>
             /\ NeedsReconnect(writer, conns))
    /\ [][\A t \in Tasks : (ConnectFailure(t) /\ task'[t] # task[t]) =>
             /\ task'[t].pc = "connecting"
             /\ task'[t].attempts = 1
             /\ task'[t].wire = <<>>]_vars

C13_Witness ==
    /\ conns = <<>>
    /\ task[1].pc = "connecting" /\ task[1].afterFail /\ task[1].attempts = 1

(***************************************************************************)
(* C14.  A QUERY, SEND or STATUS request line is written only on a         *)
(* connection on which the SUB handshake has completed: SUB was written on *)
(* it and the one line acknowledging it was read and dropped on it.  This  *)
(* holds also after an operation failed or was cancelled between the       *)
(* opening of the connection and the reading of the acknowledgement.       *)
(***************************************************************************)
C14_RequestAfterHandshake ==
    \A t \in Tasks : HasRequest(t) => task[t].handshaken

(***************************************************************************)
(* C15.  A command whose reply line was not received, because the stream   *)
(* ended first and the read came back empty, fails with a transport error; *)
(* a command that reports success has received a reply line.               *)
(***************************************************************************)
C15_NoReplyNoSuccess ==
    \A t \in Tasks : (Finished(t) /\ task[t].kind = "send") =>
        /\ task[t].rx = << <<>> >> =>
              /\ task[t].outcome = "error"
              /\ task[t].error.type \in TransportErrors
        /\ task[t].outcome = "ok" =>
              /\ Len(task[t].rx) = 1
              /\ task[t].rx[1] # <<>>

(***************************************************************************)
(* C16.  The client has at most one live transport: of the connections it  *)
(* opened, at most one is open, and a connection that is open is the one   *)
(* the client refers to as its writer and reader, however the operations   *)
(* on the client interleave.                                               *)
(***************************************************************************)
Open(c) == ~conns[c].closing /\ ~conns[c].finalized

C16_OneLiveTransport ==
    \A c, d \in 1..Len(conns) :
        /\ (Open(c) /\ Open(d)) => c = d
        /\ Open(c) => (writer = c /\ reader = c)

(***************************************************************************)
(* C17.  The attribute taken from the last field of a reply row has the    *)
(* line terminator stripped, for each of the seven record types: no        *)
(* attribute of a record an operation returns ends in CR or LF.            *)
(***************************************************************************)
C17_TerminatorStripped ==
    \A t \in Tasks : (Finished(t) /\ task[t].outcome = "ok") =>
        \A k \in 1..Len(task[t].result) :
            \A a \in DOMAIN task[t].result[k] :
                LET value == task[t].result[k][a]
                IN  value # <<>> => value[Len(value)] \notin {"\r", "\n"}

(***************************************************************************)
(* C18.  A COLOR_LEVEL row gives the seven attributes of a ColourLevel     *)
(* from seven different fields of the row, the fields 1 to 7 after the     *)
(* row's name, in the order room_id, channel_id, type, level,              *)
(* red_or_kelvin, green, blue; level and red_or_kelvin come from           *)
(* different fields.                                                       *)
(***************************************************************************)
C18_ColourLevelFields ==
    \A t \in Tasks :
        (Finished(t) /\ task[t].op = "get_colours_levels" /\ task[t].outcome = "ok") =>
            LET rows == DataLines(task[t].rx) IN
            /\ Len(task[t].result) = Len(rows)
            /\ \A k \in 1..Len(task[t].result) :
                  LET r == task[t].result[k]
                      f == Fields(rows[k])
                  IN  /\ Len(f) >= 8
                      /\ r.room_id = f[2]
                      /\ r.channel_id = f[3]
                      /\ r.type = f[4]
                      /\ r.level = f[5]
                      /\ r.red_or_kelvin = f[6]
                      /\ r.green = f[7]
                      /\ r.blue = f[8]

(***************************************************************************)
(* C19.  When a query failed part-way through its response, on a row it    *)
(* could not take before it had read QUERY_COMPLETE, the operation         *)
(* the caller runs next on the same client reads only lines the hub sent   *)
(* in answer to that operation's own request: no line the failed query     *)
(* left unread is taken as a row or as the reply of the next operation.    *)
(***************************************************************************)
C19_NoStaleLines ==
    \A t \in SeqTasks :
        (Started(t) /\ task[t].afterRowFailure) => ~task[t].foreign

(***************************************************************************)
(* C20.  A query ends, provided the hub in the end sends QUERY_COMPLETE or *)
(* the stream ends.  It stops at the first QUERY_COMPLETE line and reads   *)
(* no line after it; at the end of the stream it ends with a failure       *)
(* after one empty read, and does not go on reading empty lines or         *)
(* QUERY_HEADER lines for ever.                                            *)
(***************************************************************************)
QueryRunning(t) == task[t].kind = "query" /\ task[t].pc # "idle"

C20_QueryTerminates ==
    /\ [](\A t \in SeqTasks : task[t].kind = "query" =>
             \A i \in 1..Len(task[t].rx) :
                 /\ IsComplete(task[t].rx[i]) =>
                       i = Len(task[t].rx) /\ Finished(t)
                 /\ task[t].rx[i] = <<>> =>
                       i = Len(task[t].rx) /\ Finished(t) /\ task[t].outcome = "error")
    /\ \A t \in SeqTasks : QueryRunning(t) ~> Finished(t)

C20_Witness ==
    /\ Finished(1) /\ task[1].kind = "query" /\ task[1].outcome = "ok"
    /\ Len(task[1].rx) = 3
    /\ IsHeader(task[1].rx[1]) /\ IsComplete(task[1].rx[3])

=============================================================================
